---- MODULE Spec2Model ----
(***************************************************************************)
(* The python sphere model of sasmodels (sasmodels/models/spherepy.py):    *)
(* form_volume, Iq, Iqxy, sesans and ER, evaluated over numpy arrays.      *)
(*                                                                         *)
(* Numbers.  The evaluators compute in IEEE-754 floating point.  The model *)
(* keeps what the evaluators' behaviour rests on -- correct rounding       *)
(* (half to even), NaN, +-Inf, overflow to Inf, gradual underflow to 0,    *)
(* x/0 = +-Inf, 0/0 = NaN, comparisons with NaN false -- in a decimal      *)
(* format of Prec significant digits and exponents EMin..EMax (binary64    *)
(* has 53 bits and exponents -1074..971 for an integer significand).  A    *)
(* finite number is m * 10^e with m a signed integer significand.  The     *)
(* sign of zero is not kept (the evaluators never read it: every zero is   *)
(* compared with ==, or divides and is then overwritten or masked out).    *)
(* x ** 3 is rounded after each product.  numpy's error handling is the    *)
(* default one: a division by zero or an invalid operation on arrays or    *)
(* numpy scalars warns and yields Inf or NaN; it raises nothing.  Division *)
(* is python 3's: an integer array divided by a number is a float array.   *)
(***************************************************************************)
EXTENDS Integers, Sequences, FiniteSets, TLC

\* significant decimal digits of the floating-point format
Prec == 4
\* exponent of the smallest (subnormal) and of the largest significand
EMin == -324
EMax == 304

RECURSIVE Pow10(_)
Pow10(k) == IF k <= 0 THEN 1 ELSE 10 * Pow10(k - 1)

RECURSIVE Digits(_)
Digits(n) == IF n < 10 THEN 1 ELSE 1 + Digits(n \div 10)

Abs(n) == IF n < 0 THEN -n ELSE n
Sgn(n) == IF n < 0 THEN -1 ELSE IF n > 0 THEN 1 ELSE 0

NaN == [c |-> "nan", m |-> 0, e |-> 0]
Inf(s) == [c |-> "inf", m |-> s, e |-> 0]
Fin(m, e) == [c |-> "fin", m |-> m, e |-> e]
Zero == Fin(0, 0)

IsNaN(a) == a.c = "nan"
IsInf(a) == a.c = "inf"
IsFin(a) == a.c = "fin"
IsZero(a) == a.c = "fin" /\ a.m = 0

\* n / 10^k for n >= 0, k >= 0, rounded to the nearest integer, ties to even
RoundDiv(n, k) ==
    IF k = 0 THEN n
    ELSE IF k > 9 THEN 0
    ELSE LET p == Pow10(k)
             q == n \div p
             r == n % p
             h == p \div 2
         IN  IF r > h \/ (r = h /\ q % 2 = 1) THEN q + 1 ELSE q

\* the float nearest to s * n * 10^e (s = +-1, n >= 0): at most Prec digits,
\* exponent at least EMin (below it digits are lost: gradual underflow, to 0
\* in the end), Inf past EMax
Round(s, n, e) ==
    IF n = 0 THEN Zero
    ELSE LET k1 == Digits(n) - Prec
             k  == IF e + k1 < EMin THEN EMin - e ELSE k1
             m1 == IF k >= 0 THEN RoundDiv(n, k) ELSE n * Pow10(-k)
             e1 == e + k
             m2 == IF m1 = Pow10(Prec) THEN m1 \div 10 ELSE m1
             e2 == IF m1 = Pow10(Prec) THEN e1 + 1 ELSE e1
         IN  IF m2 = 0 THEN Zero
             ELSE IF e2 > EMax THEN Inf(s)
             ELSE Fin(s * m2, e2)

\* a finite nonzero float with its significand scaled to exactly Prec digits
\* (the exponent is then unbounded below: used inside / and sqrt only)
NormM(a) == Abs(a.m) * Pow10(Prec - Digits(Abs(a.m)))
NormE(a) == a.e - (Prec - Digits(Abs(a.m)))

FNeg(a) == IF IsNaN(a) THEN NaN ELSE [a EXCEPT !.m = -a.m]

FMul(a, b) ==
    IF IsNaN(a) \/ IsNaN(b) THEN NaN
    ELSE IF IsInf(a) \/ IsInf(b)
         THEN IF IsZero(a) \/ IsZero(b) THEN NaN
              ELSE Inf(Sgn(a.m) * Sgn(b.m))
    ELSE IF a.m = 0 \/ b.m = 0 THEN Zero
    ELSE Round(Sgn(a.m) * Sgn(b.m), Abs(a.m) * Abs(b.m), a.e + b.e)

FAdd(a, b) ==
    IF IsNaN(a) \/ IsNaN(b) THEN NaN
    ELSE IF IsInf(a) /\ IsInf(b) THEN (IF a.m = b.m THEN a ELSE NaN)
    ELSE IF IsInf(a) THEN a
    ELSE IF IsInf(b) THEN b
    ELSE IF a.m = 0 THEN b
    ELSE IF b.m = 0 THEN a
    ELSE LET hi == IF a.e >= b.e THEN a ELSE b
             lo == IF a.e >= b.e THEN b ELSE a
             df == hi.e - lo.e
         IN  IF df > Prec + 1 THEN hi
             ELSE LET n == hi.m * Pow10(df) + lo.m
                  IN  Round(Sgn(n), Abs(n), lo.e)

FSub(a, b) == FAdd(a, FNeg(b))

FDiv(a, b) ==
    IF IsNaN(a) \/ IsNaN(b) THEN NaN
    ELSE IF IsInf(a)
         THEN IF IsInf(b) THEN NaN
              ELSE Inf(a.m * (IF b.m < 0 THEN -1 ELSE 1))
    ELSE IF IsInf(b) THEN Zero
    ELSE IF b.m = 0 THEN (IF a.m = 0 THEN NaN ELSE Inf(Sgn(a.m)))
    ELSE IF a.m = 0 THEN Zero
    ELSE LET n == NormM(a) * Pow10(Prec + 1)
             d == NormM(b)
             q == n \div d
             st == IF n % d = 0 THEN 0 ELSE 1
         IN  Round(Sgn(a.m) * Sgn(b.m), q * 10 + st,
                   NormE(a) - NormE(b) - (Prec + 2))

\* floor of the square root of n >= 0, by bisection on [lo, hi]
RECURSIVE ISqrt(_, _, _)
ISqrt(n, lo, hi) ==
    IF lo >= hi THEN lo
    ELSE LET mid == (lo + hi + 1) \div 2
         IN  IF mid * mid <= n THEN ISqrt(n, mid, hi) ELSE ISqrt(n, lo, mid - 1)

FSqrt(a) ==
    IF IsNaN(a) THEN NaN
    ELSE IF IsInf(a) THEN (IF a.m > 0 THEN a ELSE NaN)
    ELSE IF a.m < 0 THEN NaN
    ELSE IF a.m = 0 THEN Zero
    ELSE LET odd == NormE(a) % 2 = 1
             n == NormM(a) * Pow10(Prec) * (IF odd THEN 10 ELSE 1)
             e == IF odd THEN NormE(a) - 1 ELSE NormE(a)
             s == ISqrt(n, 0, 46340)
             r == n - s * s
             \* one more digit d: the largest with (10 s + d)^2 <= 100 n
             ds == {d \in 0..9 : 20 * s * d + d * d <= 100 * r}
             d == CHOOSE x \in ds : \A y \in ds : y <= x
             st == IF 20 * s * d + d * d = 100 * r THEN 0 ELSE 1
         IN  Round(1, (10 * s + d) * 10 + st, (e - Prec) \div 2 - 2)

\* comparisons: every comparison with NaN is false
FEq(a, b) == ~IsNaN(a) /\ ~IsNaN(b) /\ a = b
FLt(a, b) ==
    /\ ~IsNaN(a) /\ ~IsNaN(b)
    /\ a # b
    /\ IF IsInf(a) /\ IsInf(b) THEN a.m < b.m
       ELSE FSub(a, b).m < 0
FGt(a, b) == FLt(b, a)

\* a float from an integer significand and an exponent, in canonical form
F(m, e) == Round(Sgn(m), Abs(m), e)

One == F(1, 0)
Two == F(2, 0)
Three == F(3, 0)
Four == F(4, 0)
Eight == F(8, 0)
Sixteen == F(16, 0)

\* x ** 3
Pow3(a) == FMul(FMul(a, a), a)

(***************************************************************************)
(* numpy's sin, cos and log: library functions, given by their correctly   *)
(* rounded values at the arguments the evaluators pass (they have no value *)
(* at any other argument), by sin x = x and cos x = 1 to Prec digits for   *)
(* |x| < 0.01, and by the IEEE results at 0, NaN and +-Inf.                *)
(***************************************************************************)
sinTable(a) ==
    CASE a = Fin(1000, -4) -> Fin(9983, -5)
      [] a = Fin(1200, -4) -> Fin(1197, -4)
      [] a = Fin(1414, -4) -> Fin(1409, -4)
      [] a = Fin(1562, -4) -> Fin(1556, -4)
      [] a = Fin(1600, -4) -> Fin(1593, -4)
      [] a = Fin(1697, -4) -> Fin(1689, -4)
      [] a = Fin(1887, -4) -> Fin(1876, -4)
      [] a = Fin(2000, -4) -> Fin(1987, -4)
      [] a = Fin(2200, -4) -> Fin(2182, -4)
      [] a = Fin(2236, -4) -> Fin(2217, -4)
      [] a = Fin(2263, -4) -> Fin(2244, -4)
      [] a = Fin(2332, -4) -> Fin(2311, -4)
      [] a = Fin(2400, -4) -> Fin(2377, -4)
      [] a = Fin(2561, -4) -> Fin(2533, -4)
      [] a = Fin(2600, -4) -> Fin(2571, -4)
      [] a = Fin(2800, -4) -> Fin(2764, -4)
      [] a = Fin(2828, -4) -> Fin(2790, -4)
      [] a = Fin(3000, -4) -> Fin(2955, -4)
      [] a = Fin(3200, -4) -> Fin(3146, -4)
      [] a = Fin(3600, -4) -> Fin(3523, -4)
      [] a = Fin(4000, -4) -> Fin(3894, -4)
      [] a = Fin(1000, -3) -> Fin(8415, -4)
      [] a = Fin(1100, -3) -> Fin(8912, -4)
      [] a = Fin(1120, -3) -> Fin(9001, -4)
      [] a = Fin(1141, -3) -> Fin(9091, -4)
      [] a = Fin(1156, -3) -> Fin(9152, -4)
      [] a = Fin(1160, -3) -> Fin(9168, -4)
      [] a = Fin(1170, -3) -> Fin(9208, -4)
      [] a = Fin(1189, -3) -> Fin(9280, -4)
      [] a = Fin(1200, -3) -> Fin(9320, -4)
      [] a = Fin(1220, -3) -> Fin(9391, -4)
      [] a = Fin(1224, -3) -> Fin(9405, -4)
      [] a = Fin(1226, -3) -> Fin(9411, -4)
      [] a = Fin(1233, -3) -> Fin(9435, -4)
      [] a = Fin(1240, -3) -> Fin(9458, -4)
      [] a = Fin(1256, -3) -> Fin(9509, -4)
      [] a = Fin(1260, -3) -> Fin(9521, -4)
      [] a = Fin(1280, -3) -> Fin(9580, -4)
      [] a = Fin(1283, -3) -> Fin(9589, -4)
      [] a = Fin(1300, -3) -> Fin(9636, -4)
      [] a = Fin(1320, -3) -> Fin(9687, -4)
      [] a = Fin(1360, -3) -> Fin(9779, -4)
      [] a = Fin(1400, -3) -> Fin(9854, -4)
      [] a = Fin(5000, -3) -> Fin(-9589, -4)
      [] a = Fin(6000, -3) -> Fin(-2794, -4)
      [] a = Fin(7070, -3) -> Fin(7081, -4)
      [] a = Fin(7810, -3) -> Fin(9990, -4)
      [] a = Fin(8000, -3) -> Fin(9894, -4)
      [] a = Fin(8485, -3) -> Fin(8074, -4)
      [] a = Fin(9435, -3) -> Fin(-1022, -5)
      [] a = Fin(1000, -2) -> Fin(-5440, -4)
      [] a = Fin(1100, -2) -> Fin(-1000, -3)
      [] a = Fin(1118, -2) -> Fin(-9830, -4)
      [] a = Fin(1132, -2) -> Fin(-9478, -4)
      [] a = Fin(1166, -2) -> Fin(-7873, -4)
      [] a = Fin(1200, -2) -> Fin(-5366, -4)
      [] a = Fin(1280, -2) -> Fin(2315, -4)
      [] a = Fin(1300, -2) -> Fin(4202, -4)
      [] a = Fin(1400, -2) -> Fin(9906, -4)
      [] a = Fin(1414, -2) -> Fin(1000, -3)
      [] a = Fin(1440, -2) -> Fin(9657, -4)
      [] a = Fin(1500, -2) -> Fin(6503, -4)
      [] a = Fin(1600, -2) -> Fin(-2879, -4)
      [] a = Fin(1697, -2) -> Fin(-9527, -4)
      [] a = Fin(1800, -2) -> Fin(-7510, -4)
      [] a = Fin(1874, -2) -> Fin(-1093, -4)
      [] a = Fin(1920, -2) -> Fin(3433, -4)
      [] a = Fin(2000, -2) -> Fin(9129, -4)
      [] a = Fin(2036, -2) -> Fin(9982, -4)
      [] a = Fin(2264, -2) -> Fin(-6043, -4)
      [] a = Fin(2400, -2) -> Fin(-9056, -4)
      [] a = Fin(2640, -2) -> Fin(9543, -4)
      [] a = Fin(2683, -2) -> Fin(9920, -4)
      [] a = Fin(2716, -2) -> Fin(8976, -4)
      [] a = Fin(2798, -2) -> Fin(2901, -4)
      [] a = Fin(2880, -2) -> Fin(-5018, -4)
      [] a = Fin(3073, -2) -> Fin(-6334, -4)
      [] a = Fin(3120, -2) -> Fin(-2143, -4)
      [] a = Fin(3360, -2) -> Fin(8178, -4)
      [] a = Fin(3394, -2) -> Fin(5790, -4)
      [] a = Fin(3600, -2) -> Fin(-9918, -4)
      [] a = Fin(3840, -2) -> Fin(6449, -4)
      [] a = Fin(4320, -2) -> Fin(-7049, -4)
      [] a = Fin(4800, -2) -> Fin(-7683, -4)
      [] a = Fin(5000, -2) -> Fin(-2624, -4)
      [] a = Fin(5010, -2) -> Fin(-1647, -4)
      [] a = Fin(5012, -2) -> Fin(-1450, -4)
      [] a = Fin(5014, -2) -> Fin(-1252, -4)
      [] a = Fin(5016, -2) -> Fin(-1053, -4)
      [] a = Fin(5017, -2) -> Fin(-9534, -5)
      [] a = Fin(5019, -2) -> Fin(-7541, -5)
      [] a = Fin(5020, -2) -> Fin(-6544, -5)
      [] a = Fin(5022, -2) -> Fin(-4547, -5)
      [] a = Fin(5023, -2) -> Fin(-3548, -5)
      [] a = Fin(5024, -2) -> Fin(-2548, -5)
      [] a = Fin(5026, -2) -> Fin(-5482, -6)
      [] a = Fin(5028, -2) -> Fin(1452, -5)
      [] a = Fin(5030, -2) -> Fin(3451, -5)
      [] a = Fin(5032, -2) -> Fin(5449, -5)
      [] a = Fin(5036, -2) -> Fin(9438, -5)
      [] a = Fin(5040, -2) -> Fin(1341, -4)
      [] a = Fin(1200, -1) -> Fin(5806, -4)
      [] a = Fin(1201, -1) -> Fin(6590, -4)
      [] a = Fin(1202, -1) -> Fin(7308, -4)
      [] a = Fin(1203, -1) -> Fin(7953, -4)
      [] a = Fin(1204, -1) -> Fin(8518, -4)
      [] a = Fin(1000, 56) -> Fin(-9995, -4)
      [] a = Fin(1200, 56) -> Fin(9623, -4)
      [] a = Fin(1414, 56) -> Fin(5519, -5)
      [] a = Fin(1562, 56) -> Fin(9612, -4)
      [] a = Fin(1600, 56) -> Fin(4762, -4)
      [] a = Fin(1697, 56) -> Fin(3676, -4)
      [] a = Fin(1887, 56) -> Fin(7476, -4)
      [] a = Fin(2000, 56) -> Fin(-6447, -5)
      [] a = Fin(2200, 56) -> Fin(-9886, -4)
      [] a = Fin(2236, 56) -> Fin(-9679, -4)
      [] a = Fin(2263, 56) -> Fin(-3164, -4)
      [] a = Fin(2332, 56) -> Fin(-9866, -5)
      [] a = Fin(2400, 56) -> Fin(-5232, -4)
      [] a = Fin(2561, 56) -> Fin(9862, -4)
      [] a = Fin(2600, 56) -> Fin(8347, -4)
      [] a = Fin(2800, 56) -> Fin(-9893, -4)
      [] a = Fin(2828, 56) -> Fin(-1102, -4)
      [] a = Fin(3000, 56) -> Fin(-5276, -4)
      [] a = Fin(3200, 56) -> Fin(8375, -4)
      [] a = Fin(3600, 56) -> Fin(-5319, -4)
      [] a = Fin(4000, 56) -> Fin(1287, -4)
      [] a = Fin(1000, 57) -> Fin(-5608, -4)

cosTable(a) ==
    CASE a = Fin(1000, -4) -> Fin(9950, -4)
      [] a = Fin(1200, -4) -> Fin(9928, -4)
      [] a = Fin(1414, -4) -> Fin(9900, -4)
      [] a = Fin(1562, -4) -> Fin(9878, -4)
      [] a = Fin(1600, -4) -> Fin(9872, -4)
      [] a = Fin(1697, -4) -> Fin(9856, -4)
      [] a = Fin(1887, -4) -> Fin(9822, -4)
      [] a = Fin(2000, -4) -> Fin(9801, -4)
      [] a = Fin(2200, -4) -> Fin(9759, -4)
      [] a = Fin(2236, -4) -> Fin(9751, -4)
      [] a = Fin(2263, -4) -> Fin(9745, -4)
      [] a = Fin(2332, -4) -> Fin(9729, -4)
      [] a = Fin(2400, -4) -> Fin(9713, -4)
      [] a = Fin(2561, -4) -> Fin(9674, -4)
      [] a = Fin(2600, -4) -> Fin(9664, -4)
      [] a = Fin(2800, -4) -> Fin(9611, -4)
      [] a = Fin(2828, -4) -> Fin(9603, -4)
      [] a = Fin(3000, -4) -> Fin(9553, -4)
      [] a = Fin(3200, -4) -> Fin(9492, -4)
      [] a = Fin(3600, -4) -> Fin(9359, -4)
      [] a = Fin(4000, -4) -> Fin(9211, -4)
      [] a = Fin(1000, -3) -> Fin(5403, -4)
      [] a = Fin(1100, -3) -> Fin(4536, -4)
      [] a = Fin(1120, -3) -> Fin(4357, -4)
      [] a = Fin(1141, -3) -> Fin(4167, -4)
      [] a = Fin(1156, -3) -> Fin(4030, -4)
      [] a = Fin(1160, -3) -> Fin(3993, -4)
      [] a = Fin(1170, -3) -> Fin(3902, -4)
      [] a = Fin(1189, -3) -> Fin(3726, -4)
      [] a = Fin(1200, -3) -> Fin(3624, -4)
      [] a = Fin(1220, -3) -> Fin(3436, -4)
      [] a = Fin(1224, -3) -> Fin(3399, -4)
      [] a = Fin(1226, -3) -> Fin(3380, -4)
      [] a = Fin(1233, -3) -> Fin(3314, -4)
      [] a = Fin(1240, -3) -> Fin(3248, -4)
      [] a = Fin(1256, -3) -> Fin(3096, -4)
      [] a = Fin(1260, -3) -> Fin(3058, -4)
      [] a = Fin(1280, -3) -> Fin(2867, -4)
      [] a = Fin(1283, -3) -> Fin(2838, -4)
      [] a = Fin(1300, -3) -> Fin(2675, -4)
      [] a = Fin(1320, -3) -> Fin(2482, -4)
      [] a = Fin(1360, -3) -> Fin(2092, -4)
      [] a = Fin(1400, -3) -> Fin(1700, -4)
      [] a = Fin(5000, -3) -> Fin(2837, -4)
      [] a = Fin(6000, -3) -> Fin(9602, -4)
      [] a = Fin(7070, -3) -> Fin(7061, -4)
      [] a = Fin(7810, -3) -> Fin(4397, -5)
      [] a = Fin(8000, -3) -> Fin(-1455, -4)
      [] a = Fin(8485, -3) -> Fin(-5900, -4)
      [] a = Fin(9435, -3) -> Fin(-9999, -4)
      [] a = Fin(1000, -2) -> Fin(-8391, -4)
      [] a = Fin(1100, -2) -> Fin(4426, -6)
      [] a = Fin(1118, -2) -> Fin(1834, -4)
      [] a = Fin(1132, -2) -> Fin(3188, -4)
      [] a = Fin(1166, -2) -> Fin(6166, -4)
      [] a = Fin(1200, -2) -> Fin(8439, -4)
      [] a = Fin(1280, -2) -> Fin(9728, -4)
      [] a = Fin(1300, -2) -> Fin(9074, -4)
      [] a = Fin(1400, -2) -> Fin(1367, -4)
      [] a = Fin(1414, -2) -> Fin(-2833, -6)
      [] a = Fin(1440, -2) -> Fin(-2598, -4)
      [] a = Fin(1500, -2) -> Fin(-7597, -4)
      [] a = Fin(1600, -2) -> Fin(-9577, -4)
      [] a = Fin(1697, -2) -> Fin(-3039, -4)
      [] a = Fin(1800, -2) -> Fin(6603, -4)
      [] a = Fin(1874, -2) -> Fin(9940, -4)
      [] a = Fin(1920, -2) -> Fin(9392, -4)
      [] a = Fin(2000, -2) -> Fin(4081, -4)
      [] a = Fin(2036, -2) -> Fin(6032, -5)
      [] a = Fin(2264, -2) -> Fin(-7968, -4)
      [] a = Fin(2400, -2) -> Fin(4242, -4)
      [] a = Fin(2640, -2) -> Fin(2989, -4)
      [] a = Fin(2683, -2) -> Fin(-1261, -4)
      [] a = Fin(2716, -2) -> Fin(-4408, -4)
      [] a = Fin(2798, -2) -> Fin(-9570, -4)
      [] a = Fin(2880, -2) -> Fin(-8650, -4)
      [] a = Fin(3073, -2) -> Fin(7738, -4)
      [] a = Fin(3120, -2) -> Fin(9768, -4)
      [] a = Fin(3360, -2) -> Fin(-5756, -4)
      [] a = Fin(3394, -2) -> Fin(-8153, -4)
      [] a = Fin(3600, -2) -> Fin(-1280, -4)
      [] a = Fin(3840, -2) -> Fin(7643, -4)
      [] a = Fin(4320, -2) -> Fin(7093, -4)
      [] a = Fin(4800, -2) -> Fin(-6401, -4)
      [] a = Fin(5000, -2) -> Fin(9650, -4)
      [] a = Fin(5010, -2) -> Fin(9863, -4)
      [] a = Fin(5012, -2) -> Fin(9894, -4)
      [] a = Fin(5014, -2) -> Fin(9921, -4)
      [] a = Fin(5016, -2) -> Fin(9944, -4)
      [] a = Fin(5017, -2) -> Fin(9954, -4)
      [] a = Fin(5019, -2) -> Fin(9972, -4)
      [] a = Fin(5020, -2) -> Fin(9979, -4)
      [] a = Fin(5022, -2) -> Fin(9990, -4)
      [] a = Fin(5023, -2) -> Fin(9994, -4)
      [] a = Fin(5024, -2) -> Fin(9997, -4)
      [] a = Fin(5026, -2) -> Fin(1000, -3)
      [] a = Fin(5028, -2) -> Fin(9999, -4)
      [] a = Fin(5030, -2) -> Fin(9994, -4)
      [] a = Fin(5032, -2) -> Fin(9985, -4)
      [] a = Fin(5036, -2) -> Fin(9955, -4)
      [] a = Fin(5040, -2) -> Fin(9910, -4)
      [] a = Fin(1200, -1) -> Fin(8142, -4)
      [] a = Fin(1201, -1) -> Fin(7521, -4)
      [] a = Fin(1202, -1) -> Fin(6826, -4)
      [] a = Fin(1203, -1) -> Fin(6062, -4)
      [] a = Fin(1204, -1) -> Fin(5238, -4)
      [] a = Fin(1000, 56) -> Fin(3225, -5)
      [] a = Fin(1200, 56) -> Fin(-2718, -4)
      [] a = Fin(1414, 56) -> Fin(-9985, -4)
      [] a = Fin(1562, 56) -> Fin(2759, -4)
      [] a = Fin(1600, 56) -> Fin(8793, -4)
      [] a = Fin(1697, 56) -> Fin(9300, -4)
      [] a = Fin(1887, 56) -> Fin(-6641, -4)
      [] a = Fin(2000, 56) -> Fin(-9979, -4)
      [] a = Fin(2200, 56) -> Fin(-1508, -4)
      [] a = Fin(2236, 56) -> Fin(-2513, -4)
      [] a = Fin(2263, 56) -> Fin(-9486, -4)
      [] a = Fin(2332, 56) -> Fin(9951, -4)
      [] a = Fin(2400, 56) -> Fin(-8522, -4)
      [] a = Fin(2561, 56) -> Fin(1654, -4)
      [] a = Fin(2600, 56) -> Fin(5507, -4)
      [] a = Fin(2800, 56) -> Fin(-1457, -4)
      [] a = Fin(2828, 56) -> Fin(9939, -4)
      [] a = Fin(3000, 56) -> Fin(-8495, -4)
      [] a = Fin(3200, 56) -> Fin(5464, -4)
      [] a = Fin(3600, 56) -> Fin(-8468, -4)
      [] a = Fin(4000, 56) -> Fin(9917, -4)
      [] a = Fin(1000, 57) -> Fin(8280, -4)

logTable(a) ==
    CASE a = Fin(1, -324) -> Fin(-7460, -1)
      [] a = Fin(12, -324) -> Fin(-7436, -1)
      [] a = Fin(25, -324) -> Fin(-7428, -1)
      [] a = Fin(30, -324) -> Fin(-7426, -1)
      [] a = Fin(38, -324) -> Fin(-7424, -1)
      [] a = Fin(50, -324) -> Fin(-7421, -1)
      [] a = Fin(60, -324) -> Fin(-7419, -1)
      [] a = Fin(62, -324) -> Fin(-7419, -1)
      [] a = Fin(90, -324) -> Fin(-7415, -1)
      [] a = Fin(120, -324) -> Fin(-7413, -1)
      [] a = Fin(150, -324) -> Fin(-7410, -1)
      [] a = Fin(2500, -268) -> Fin(-6093, -1)
      [] a = Fin(5000, -268) -> Fin(-6086, -1)
      [] a = Fin(7500, -268) -> Fin(-6082, -1)
      [] a = Fin(1000, -267) -> Fin(-6079, -1)
      [] a = Fin(1250, -267) -> Fin(-6077, -1)
      [] a = Fin(2500, -65) -> Fin(-1418, -1)
      [] a = Fin(3000, -65) -> Fin(-1417, -1)
      [] a = Fin(4000, -65) -> Fin(-1414, -1)
      [] a = Fin(5000, -65) -> Fin(-1412, -1)
      [] a = Fin(2500, -64) -> Fin(-1395, -1)
      [] a = Fin(5000, -64) -> Fin(-1388, -1)
      [] a = Fin(6250, -63) -> Fin(-1363, -1)
      [] a = Fin(1250, -62) -> Fin(-1356, -1)
      [] a = Fin(2500, -62) -> Fin(-1349, -1)
      [] a = Fin(2083, -7) -> Fin(-8477, -3)
      [] a = Fin(2500, -7) -> Fin(-8294, -3)
      [] a = Fin(3332, -7) -> Fin(-8007, -3)
      [] a = Fin(4168, -7) -> Fin(-7783, -3)
      [] a = Fin(5000, -7) -> Fin(-7601, -3)
      [] a = Fin(6000, -7) -> Fin(-7419, -3)
      [] a = Fin(8000, -7) -> Fin(-7131, -3)
      [] a = Fin(1000, -6) -> Fin(-6908, -3)
      [] a = Fin(2083, -6) -> Fin(-6174, -3)
      [] a = Fin(4168, -6) -> Fin(-5480, -3)
      [] a = Fin(5000, -6) -> Fin(-5298, -3)
      [] a = Fin(1000, -5) -> Fin(-4605, -3)
      [] a = Fin(2502, -5) -> Fin(-3688, -3)
      [] a = Fin(3003, -5) -> Fin(-3506, -3)
      [] a = Fin(4007, -5) -> Fin(-3217, -3)
      [] a = Fin(5013, -5) -> Fin(-2993, -3)
      [] a = Fin(5222, -5) -> Fin(-2952, -3)
      [] a = Fin(1053, -4) -> Fin(-2251, -3)
      [] a = Fin(1270, -4) -> Fin(-2064, -3)
      [] a = Fin(2183, -4) -> Fin(-1522, -3)
      [] a = Fin(2680, -4) -> Fin(-1317, -3)
      [] a = Fin(7595, -4) -> Fin(-2751, -4)
      [] a = Fin(7836, -4) -> Fin(-2439, -4)
      [] a = Fin(8208, -4) -> Fin(-1975, -4)
      [] a = Fin(8475, -4) -> Fin(-1655, -4)
      [] a = Fin(8677, -4) -> Fin(-1419, -4)
      [] a = Fin(8856, -4) -> Fin(-1215, -4)
      [] a = Fin(9104, -4) -> Fin(-9387, -5)
      [] a = Fin(9259, -4) -> Fin(-7699, -5)
      [] a = Fin(9287, -4) -> Fin(-7397, -5)
      [] a = Fin(9623, -4) -> Fin(-3843, -5)
      [] a = Fin(9804, -4) -> Fin(-1979, -5)
      [] a = Fin(9836, -4) -> Fin(-1654, -5)
      [] a = Fin(9917, -4) -> Fin(-8335, -6)
      [] a = Fin(9984, -4) -> Fin(-1601, -6)
      [] a = Fin(9992, -4) -> Fin(-8003, -7)
      [] a = Fin(9993, -4) -> Fin(-7002, -7)
      [] a = Fin(9996, -4) -> Fin(-4001, -7)
      [] a = Fin(9997, -4) -> Fin(-3000, -7)
      [] a = Fin(1000, -3) -> Zero

Small(a) == a.m # 0 /\ Digits(Abs(a.m)) + a.e <= -2

sin(a) ==
    IF IsNaN(a) \/ IsInf(a) THEN NaN
    ELSE IF a.m = 0 THEN Zero
    ELSE IF Small(a) THEN a
    ELSE sinTable(a)

cos(a) ==
    IF IsNaN(a) \/ IsInf(a) THEN NaN
    ELSE IF a.m = 0 \/ Small(a) THEN One
    ELSE cosTable(a)

log(a) ==
    IF IsNaN(a) THEN NaN
    ELSE IF IsInf(a) THEN (IF a.m > 0 THEN a ELSE NaN)
    ELSE IF a.m < 0 THEN NaN
    ELSE IF a.m = 0 THEN Inf(-1)
    ELSE IF a = One THEN Zero
    ELSE logTable(a)

sqrt(a) == FSqrt(a)

pi == F(3142, -3)

(***************************************************************************)
(* Values.  An ndarray is [sh |-> "array", dt, v]: its dtype and its       *)
(* elements; a scalar (a python number, or the numpy.float64 that numpy    *)
(* returns for one) is [sh |-> "scalar", dt, v |-> <<x>>]; a raised        *)
(* exception is [sh |-> "fault", dt |-> its type, v |-> <<>>].             *)
(***************************************************************************)
Nd(sh, dt, v) == [sh |-> sh, dt |-> dt, v |-> v]
Fault(exc) == Nd("fault", exc, <<>>)
IsFault(a) == a.sh = "fault"

\* the value stored in an array of dtype dt when a float is assigned to it:
\* an integer array keeps the integer part (a non-finite value has no
\* integer; numpy stores the most negative one)
Cast(a, dt) ==
    IF dt # "int" THEN a
    ELSE IF ~IsFin(a) THEN F(-9223, 15)
    ELSE IF a.e >= 0 THEN a
    ELSE IF -a.e > 9 THEN Zero
    ELSE Round(Sgn(a.m), Abs(a.m) \div Pow10(-a.e), 0)

\* a[mask] = val, val a number: numpy.float64 has no item assignment
setitem(a, mask, val) ==
    IF a.sh = "scalar" THEN Fault("TypeError")
    ELSE [a EXCEPT !.v = [i \in DOMAIN a.v |->
                            IF mask[i] THEN Cast(val, a.dt) ELSE a.v[i]]]

\* how many of mask[1..i] are set
RECURSIVE Rank(_, _)
Rank(mask, i) ==
    IF i = 0 THEN 0 ELSE Rank(mask, i - 1) + (IF mask[i] THEN 1 ELSE 0)

\* d[mask]: the selected elements, in order, as a new sequence
RECURSIVE getmask(_, _)
getmask(v, mask) ==
    IF v = <<>> THEN <<>>
    ELSE LET n == Len(v)
             front == getmask(SubSeq(v, 1, n - 1), SubSeq(mask, 1, n - 1))
         IN  IF mask[n] THEN Append(front, v[n]) ELSE front

\* a[mask] = vals, vals one value for each selected element, in order
setmask(a, mask, vals) ==
    [a EXCEPT !.v = [i \in DOMAIN a.v |->
                       IF mask[i] THEN Cast(vals[Rank(mask, i)], a.dt)
                       ELSE a.v[i]]]

\* np.zeros_like(z): a new array of zeros of z's shape and dtype (for a
\* number z an array of no dimension, which has item assignment)
zeros_like(z) ==
    [z EXCEPT !.sh = IF z.sh = "array" THEN "array" ELSE "zerodim",
              !.v = [i \in DOMAIN z.v |-> Zero]]

(***************************************************************************)
(* The evaluators, line by line.                                           *)
(***************************************************************************)
form_volume(radius) == FMul(FMul(F(1333, -3), pi), Pow3(radius))

\* line 77: qr = q * radius
Iq_qr(q, radius) ==
    [q EXCEPT !.dt = "float",
              !.v = [i \in DOMAIN q.v |-> FMul(q.v[i], radius)]]

\* line 78: sn, cn = sin(qr), cos(qr)
Iq_sn(qr) == [qr EXCEPT !.v = [i \in DOMAIN qr.v |-> sin(qr.v[i])]]
Iq_cn(qr) == [qr EXCEPT !.v = [i \in DOMAIN qr.v |-> cos(qr.v[i])]]

\* line 85: bes = 3 * (sn - qr * cn) / qr ** 3
Iq_bes(qr, sn, cn) ==
    [qr EXCEPT !.v = [i \in DOMAIN qr.v |->
        FDiv(FMul(Three, FSub(sn.v[i], FMul(qr.v[i], cn.v[i]))),
             Pow3(qr.v[i]))]]

\* a wrong index: the whole array is patched as soon as one qr is 0
Iq_mask_any(qr) ==
    [i \in DOMAIN qr.v |-> \E j \in DOMAIN qr.v : FEq(qr.v[j], Zero)]

\* line 86, the index: qr == 0
Iq_mask(qr) == [i \in DOMAIN qr.v |-> FEq(qr.v[i], Zero)]

\* the fix-up left out: the general formula's value is kept everywhere
Iq_fixup_skip(bes, qr) == bes

\* line 86: bes[qr == 0] = 1
Iq_fixup(bes, qr) == setitem(bes, Iq_mask(qr), One)

\* line 87: fq = bes * (sld - solvent_sld) * form_volume(radius)
Iq_fq(bes, sld, solvent_sld, radius) ==
    [bes EXCEPT !.v = [i \in DOMAIN bes.v |->
        FMul(FMul(bes.v[i], FSub(sld, solvent_sld)), form_volume(radius))]]

\* the unit factor 1.0e-4 left out
Iq_ret_noscale(fq) ==
    [fq EXCEPT !.v = [i \in DOMAIN fq.v |-> FMul(fq.v[i], fq.v[i])]]

\* line 88: return 1.0e-4 * fq ** 2
Iq_ret(fq) ==
    [fq EXCEPT !.v = [i \in DOMAIN fq.v |->
        FMul(F(1, -4), FMul(fq.v[i], fq.v[i]))]]

Iq(q, sld, solvent_sld, radius) ==
    LET qr == Iq_qr(q, radius)
        bes == Iq_fixup(Iq_bes(qr, Iq_sn(qr), Iq_cn(qr)), qr)
    IN  IF IsFault(bes) THEN bes
        ELSE Iq_ret(Iq_fq(bes, sld, solvent_sld, radius))

\* a wrong magnitude: |qx| + |qy|
Iqxy_q_manhattan(qx, qy) ==
    [qx EXCEPT !.dt = "float",
               !.v = [i \in DOMAIN qx.v |->
                  FAdd(F(Abs(qx.v[i].m), qx.v[i].e),
                       F(Abs(qy.v[i].m), qy.v[i].e))]]

\* line 92, the argument: sqrt(qx ** 2 + qy ** 2)
Iqxy_q(qx, qy) ==
    [qx EXCEPT !.dt = "float",
               !.v = [i \in DOMAIN qx.v |->
                  sqrt(FAdd(FMul(qx.v[i], qx.v[i]), FMul(qy.v[i], qy.v[i])))]]

Iqxy(qx, qy, sld, solvent_sld, radius) ==
    Iq(Iqxy_q(qx, qy), sld, solvent_sld, radius)

\* line 101: d = z / radius, the elements
sesans_d(z, radius) == [i \in DOMAIN z.v |-> FDiv(z.v[i], radius)]

\* line 103, the index: d == 0
sesans_zero(d) == [i \in DOMAIN d |-> FEq(d[i], Zero)]

\* line 104: low = ((d > 0) & (d < 2))
sesans_low(d) == [i \in DOMAIN d |-> FGt(d[i], Zero) /\ FLt(d[i], Two)]

\* line 106: dlow2 = dlow ** 2
sesans_dlow2(dlow) == [k \in DOMAIN dlow |-> FMul(dlow[k], dlow[k])]

\* line 107: the arguments of the two sqrt calls and of the log call
sqrt_arg1(dlow2) == FSub(One, FDiv(dlow2, Four))
sqrt_arg2(dlow2) == FSub(Four, dlow2)
log_arg(dlow, dlow2) == FDiv(dlow, FAdd(Two, sqrt(sqrt_arg2(dlow2))))

\* line 107, for one element
sesans_formula(dlow, dlow2) ==
    FAdd(FMul(sqrt(sqrt_arg1(dlow2)), FAdd(One, FDiv(dlow2, Eight))),
         FMul(FMul(FDiv(dlow2, Two), FSub(One, FDiv(dlow2, Sixteen))),
              log(log_arg(dlow, dlow2))))

\* line 105: dlow = d[low]
sesans_dlow(d) == getmask(d, sesans_low(d))

\* the right-hand side of line 107, one value for each element of dlow
sesans_vals(dlow) ==
    LET dlow2 == sesans_dlow2(dlow)
    IN  [k \in DOMAIN dlow |-> sesans_formula(dlow[k], dlow2[k])]

\* line 102: g = np.zeros_like(z)
sesans_g(z) == zeros_like(z)

\* the correlation scaled by the contrast sld - solvent_sld
sesans_contrast(z, sld, solvent_sld, radius) ==
    IF z.sh = "scalar"
    THEN (IF IsZero(radius) THEN Fault("ZeroDivisionError")
          ELSE Fault("TypeError"))
    ELSE LET d == sesans_d(z, radius)
             g == setitem(sesans_g(z), sesans_zero(d), One)
             r == setmask(g, sesans_low(d), sesans_vals(sesans_dlow(d)))
         IN  [r EXCEPT !.v = [i \in DOMAIN r.v |->
                                FMul(r.v[i], FSub(sld, solvent_sld))]]

\* a python number z: z / 0 raises, and a python number has no d[low]
sesans(z, sld, solvent_sld, radius) ==
    IF z.sh = "scalar"
    THEN (IF IsZero(radius) THEN Fault("ZeroDivisionError")
          ELSE Fault("TypeError"))
    ELSE LET d == sesans_d(z, radius)
             g == setitem(sesans_g(z), sesans_zero(d), One)
         IN  setmask(g, sesans_low(d), sesans_vals(sesans_dlow(d)))

\* the arguments sesans passes to sqrt and to log (line 107)
sesans_sqrt_args(z, radius) ==
    IF z.sh = "scalar" THEN <<>>
    ELSE LET dlow2 == sesans_dlow2(sesans_dlow(sesans_d(z, radius)))
         IN  [k \in DOMAIN dlow2 |-> sqrt_arg1(dlow2[k])] \o
             [k \in DOMAIN dlow2 |-> sqrt_arg2(dlow2[k])]

sesans_log_args(z, radius) ==
    IF z.sh = "scalar" THEN <<>>
    ELSE LET dlow == sesans_dlow(sesans_d(z, radius))
             dlow2 == sesans_dlow2(dlow)
         IN  [k \in DOMAIN dlow |-> log_arg(dlow[k], dlow2[k])]

ER(radius) == radius


(***************************************************************************)
(* The calls.  A call is an evaluator with its arguments; the arguments    *)
(* are drawn from the sets below: 0, ordinary, very large and very small   *)
(* values, arrays of every length up to MaxLen, float and integer arrays,  *)
(* and python numbers.                                                     *)
(***************************************************************************)
\* longest array passed
MaxLen == 2

\* q: 0, 0.1, 0.2
QVals == {Zero, F(1, -1), F(2, -1)}
\* (qx, qy): pairs of magnitude 0 and 0.2
PairVals == {<<Zero, Zero>>, <<F(12, -2), F(16, -2)>>,
             <<F(-12, -2), F(-16, -2)>>, <<F(16, -2), F(12, -2)>>,
             <<F(2, -1), Zero>>, <<F(12, -2), F(-16, -2)>>}
\* z: 0, the smallest positive float, 25, 50, 100, -25
ZVals == {Zero, F(1, EMin), F(25, 0), F(50, 0), F(100, 0), F(-25, 0)}
ZIntVals == {Zero, F(25, 0), F(100, 0)}
\* radius: 0, 1, the default 50, the demo's 120, 1e60
RVals == {Zero, One, F(50, 0), F(120, 0), F(1, 60)}
\* sld, solvent_sld: the defaults 1 and 6
SldVals == {One, F(6, 0)}

Seqs(S) == UNION {[1..k -> S] : k \in 0..MaxLen}
Arrays(S, dt) == {Nd("array", dt, v) : v \in Seqs(S)}
Scalars(S) == {Nd("scalar", "float", <<a>>) : a \in S}
NoArray == Nd("array", "float", <<>>)

Call(f, a, b, s, t, r) ==
    [fn |-> f, x |-> a, y |-> b, sld |-> s, solvent_sld |-> t, radius |-> r]

Calls ==
    {Call("form_volume", NoArray, NoArray, One, One, r) : r \in RVals}
    \cup {Call("ER", NoArray, NoArray, One, One, r) : r \in RVals}
    \cup {Call("Iq", a, NoArray, s, t, r) :
            a \in Arrays(QVals, "float") \cup Scalars(QVals),
            s \in SldVals, t \in SldVals, r \in RVals}
    \cup {Call("Iqxy", Nd("array", "float", [i \in DOMAIN ps |-> ps[i][1]]),
                       Nd("array", "float", [i \in DOMAIN ps |-> ps[i][2]]),
                       s, t, r) :
            ps \in Seqs(PairVals), s \in SldVals, t \in SldVals, r \in RVals}
    \cup {Call("Iqxy", Nd("scalar", "float", <<p[1]>>),
                       Nd("scalar", "float", <<p[2]>>), s, t, r) :
            p \in PairVals, s \in SldVals, t \in SldVals, r \in RVals}
    \cup {Call("sesans", a, NoArray, s, t, r) :
            a \in Arrays(ZVals, "float") \cup Arrays(ZIntVals, "int")
                  \cup Scalars(ZVals),
            s \in SldVals, t \in SldVals, r \in RVals}

VARIABLES
    fn,           \* the evaluator called
    x, y,         \* its array arguments: q, or qx and qy, or z
    sld, solvent_sld, radius,
    pc,           \* "ready" before the call, "done" after it
    result,       \* what the call returned or raised
    sqrt_args,    \* the numbers the call passed to sqrt
    log_args,     \* the numbers the call passed to log
    parameters,   \* the module's parameter table
    heap,         \* concurrent callers: the objects, by identity
    frames        \* concurrent callers: each caller's evaluator, line, locals

args == <<fn, x, y, sld, solvent_sld, radius, parameters>>
conc == <<heap, frames>>
vars == <<fn, x, y, sld, solvent_sld, radius, pc, result, sqrt_args, log_args,
          parameters, heap, frames>>

\* lines 62-68: name, units, default, [lower, upper], type (the
\* descriptions left out)
ParametersTable ==
    << [name |-> "sld", units |-> "1e-6/Ang^2", default |-> F(1, 0),
        lower |-> Inf(-1), upper |-> Inf(1), type |-> ""],
       [name |-> "solvent_sld", units |-> "1e-6/Ang^2", default |-> F(6, 0),
        lower |-> Inf(-1), upper |-> Inf(1), type |-> ""],
       [name |-> "radius", units |-> "Ang", default |-> F(50, 0),
        lower |-> Zero, upper |-> Inf(1), type |-> "volume"] >>

Init ==
    /\ \E c \in Calls :
         /\ fn = c.fn /\ x = c.x /\ y = c.y
         /\ sld = c.sld /\ solvent_sld = c.solvent_sld /\ radius = c.radius
    /\ pc = "ready"
    /\ result = NoArray
    /\ sqrt_args = <<>>
    /\ log_args = <<>>
    /\ parameters = ParametersTable
    /\ heap = <<>>
    /\ frames = <<>>

Call_form_volume ==
    /\ pc = "ready" /\ fn = "form_volume"
    /\ result' = Nd("scalar", "float", <<form_volume(radius)>>)
    /\ pc' = "done"
    /\ UNCHANGED <<args, sqrt_args, log_args, conc>>

Call_ER ==
    /\ pc = "ready" /\ fn = "ER"
    /\ result' = Nd("scalar", "float", <<ER(radius)>>)
    /\ pc' = "done"
    /\ UNCHANGED <<args, sqrt_args, log_args, conc>>

Call_Iq ==
    /\ pc = "ready" /\ fn = "Iq"
    /\ result' = Iq(x, sld, solvent_sld, radius)
    /\ pc' = "done"
    /\ UNCHANGED <<args, sqrt_args, log_args, conc>>

Call_Iqxy ==
    /\ pc = "ready" /\ fn = "Iqxy"
    /\ result' = Iqxy(x, y, sld, solvent_sld, radius)
    /\ sqrt_args' = [i \in DOMAIN x.v |->
                       FAdd(FMul(x.v[i], x.v[i]), FMul(y.v[i], y.v[i]))]
    /\ pc' = "done"
    /\ UNCHANGED <<args, log_args, conc>>

Call_sesans ==
    /\ pc = "ready" /\ fn = "sesans"
    /\ result' = sesans(x, sld, solvent_sld, radius)
    /\ sqrt_args' = sesans_sqrt_args(x, radius)
    /\ log_args' = sesans_log_args(x, radius)
    /\ pc' = "done"
    /\ UNCHANGED <<args, conc>>

Next ==
    \/ Call_form_volume
    \/ Call_ER
    \/ Call_Iq
    \/ Call_Iqxy
    \/ Call_sesans

Spec == Init /\ [][Next]_vars

(***************************************************************************)
(* Concurrent callers.  Callers 1..NCallers each call one evaluator, on    *)
(* the same argument objects, and run it one line at a time, interleaved   *)
(* in any order.  An object has an identity: heap maps it to its value, a  *)
(* local variable holds an identity, and a statement that builds an array  *)
(* allocates a new object while an item assignment writes the object the   *)
(* variable names.  Objects 1 and 2 are the callers' arrays x and y.       *)
(***************************************************************************)
NCallers == 2
Callers == 1..NCallers

\* the caller's arrays: [0.12, 0.2] with [0.16, 0], or the numbers 0.2, 0
ConcInputs ==
    { <<Nd("array", "float", <<F(12, -2), F(2, -1)>>),
        Nd("array", "float", <<F(16, -2), Zero>>)>>,
      <<Nd("scalar", "float", <<F(2, -1)>>),
        Nd("scalar", "float", <<Zero>>)>> }
ConcRadii == {Zero, F(50, 0)}

Slot == [q |-> 1, qr |-> 2, sn |-> 3, cn |-> 4, bes |-> 5, fq |-> 6, ret |-> 7,
         d |-> 2, g |-> 3, low |-> 4, dlow |-> 5, dlow2 |-> 6]
Id(c, name) == 10 * c + Slot[name]

IdleFrame == [fn |-> "none", pc |-> "idle", loc |-> <<>>, ret |-> 0]

InitC ==
    /\ \E in \in ConcInputs : x = in[1] /\ y = in[2] /\ heap = <<x, y>>
    /\ radius \in ConcRadii
    /\ sld = One /\ solvent_sld = F(6, 0)
    /\ fn = "none" /\ pc = "ready" /\ result = NoArray
    /\ sqrt_args = <<>> /\ log_args = <<>>
    /\ parameters = ParametersTable
    /\ frames = [c \in Callers |-> IdleFrame]

seq == <<fn, pc, result, sqrt_args, log_args>>

\* the value of caller c's local variable
Val(c, name) == heap[frames[c].loc[name]]

\* name = <a new object of value val>, then line `line`
Assign(c, name, val, line) ==
    /\ heap' = (Id(c, name) :> val) @@ heap
    /\ frames' = [frames EXCEPT ![c].pc = line,
                                ![c].loc = (name :> Id(c, name)) @@ @]

\* the call ends raising exc
Raise(c, exc) ==
    /\ heap' = (Id(c, "ret") :> Fault(exc)) @@ heap
    /\ frames' = [frames EXCEPT ![c].pc = "raised", ![c].ret = Id(c, "ret")]

\* the call returns the object id
Return(c, id) ==
    frames' = [frames EXCEPT ![c].pc = "returned", ![c].ret = id]

At(c, f, line) == frames[c].fn = f /\ frames[c].pc = line

\* a caller calls evaluator f: its parameters are bound to the arguments
Enter(c, f) ==
    /\ frames[c].pc = "idle"
    /\ frames' = [frames EXCEPT ![c] =
         [fn |-> f, ret |-> 0,
          pc |-> CASE f = "form_volume" -> "L72" [] f = "Iq" -> "L77"
                   [] f = "Iqxy" -> "L92" [] f = "sesans" -> "L101" [] f = "ER" -> "L112",
          loc |-> CASE f = "Iq" -> [q |-> 1]
                    [] f = "Iqxy" -> [qx |-> 1, qy |-> 2]
                    [] f = "sesans" -> [z |-> 1]
                    [] OTHER -> <<>>]]
    /\ UNCHANGED <<args, seq, heap>>

\* line 72: return 1.333333333333333 * pi * radius ** 3
L72(c) ==
    /\ At(c, "form_volume", "L72")
    /\ heap' = (Id(c, "ret") :> Nd("scalar", "float", <<form_volume(radius)>>))
               @@ heap
    /\ Return(c, Id(c, "ret"))
    /\ UNCHANGED <<args, seq>>

\* line 112: return radius
L112(c) ==
    /\ At(c, "ER", "L112")
    /\ heap' = (Id(c, "ret") :> Nd("scalar", "float", <<ER(radius)>>)) @@ heap
    /\ Return(c, Id(c, "ret"))
    /\ UNCHANGED <<args, seq>>

\* line 92: Iqxy calls Iq with q = sqrt(qx ** 2 + qy ** 2)
L92(c) ==
    /\ At(c, "Iqxy", "L92")
    /\ Assign(c, "q", Iqxy_q(Val(c, "qx"), Val(c, "qy")), "L77")
    /\ UNCHANGED <<args, seq>>

InIq(c, line) == frames[c].fn \in {"Iq", "Iqxy"} /\ frames[c].pc = line

L77(c) ==
    /\ InIq(c, "L77")
    /\ Assign(c, "qr", Iq_qr(Val(c, "q"), radius), "L78")
    /\ UNCHANGED <<args, seq>>

L78(c) ==
    /\ InIq(c, "L78")
    /\ heap' = (Id(c, "sn") :> Iq_sn(Val(c, "qr"))) @@
               (Id(c, "cn") :> Iq_cn(Val(c, "qr"))) @@ heap
    /\ frames' = [frames EXCEPT ![c].pc = "L85",
                    ![c].loc = [sn |-> Id(c, "sn"), cn |-> Id(c, "cn")] @@ @]
    /\ UNCHANGED <<args, seq>>

L85(c) ==
    /\ InIq(c, "L85")
    /\ Assign(c, "bes", Iq_bes(Val(c, "qr"), Val(c, "sn"), Val(c, "cn")), "L86")
    /\ UNCHANGED <<args, seq>>

\* line 86: bes[qr == 0] = 1 writes the object bes names, or raises
L86(c) ==
    /\ InIq(c, "L86")
    /\ LET new == Iq_fixup(Val(c, "bes"), Val(c, "qr"))
       IN  IF IsFault(new) THEN Raise(c, new.dt)
           ELSE /\ heap' = [heap EXCEPT ![frames[c].loc.bes] = new]
                /\ frames' = [frames EXCEPT ![c].pc = "L87"]
    /\ UNCHANGED <<args, seq>>

L87(c) ==
    /\ InIq(c, "L87")
    /\ Assign(c, "fq", Iq_fq(Val(c, "bes"), sld, solvent_sld, radius), "L88")
    /\ UNCHANGED <<args, seq>>

L88(c) ==
    /\ InIq(c, "L88")
    /\ heap' = (Id(c, "ret") :> Iq_ret(Val(c, "fq"))) @@ heap
    /\ Return(c, Id(c, "ret"))
    /\ UNCHANGED <<args, seq>>

\* line 101: d = z / radius; a python number divided by 0 raises
L101(c) ==
    /\ At(c, "sesans", "L101")
    /\ LET z == Val(c, "z")
       IN  IF z.sh = "scalar" /\ IsZero(radius)
           THEN Raise(c, "ZeroDivisionError")
           ELSE Assign(c, "d", Nd(z.sh, "float", sesans_d(z, radius)), "L102")
    /\ UNCHANGED <<args, seq>>

\* g = z: no new array, g names the caller's z
L102_alias(c) ==
    /\ At(c, "sesans", "L102")
    /\ frames' = [frames EXCEPT ![c].pc = "L103",
                                ![c].loc = [g |-> @.z] @@ @]
    /\ UNCHANGED <<args, seq, heap>>

\* line 102: g = np.zeros_like(z)
L102(c) ==
    /\ At(c, "sesans", "L102")
    /\ Assign(c, "g", sesans_g(Val(c, "z")), "L103")
    /\ UNCHANGED <<args, seq>>

\* line 103: g[d == 0] = 1. writes the object g names
L103(c) ==
    /\ At(c, "sesans", "L103")
    /\ heap' = [heap EXCEPT ![frames[c].loc.g] =
                  setitem(@, sesans_zero(Val(c, "d").v), One)]
    /\ frames' = [frames EXCEPT ![c].pc = "L104"]
    /\ UNCHANGED <<args, seq>>

L104(c) ==
    /\ At(c, "sesans", "L104")
    /\ Assign(c, "low", Nd(Val(c, "d").sh, "bool", sesans_low(Val(c, "d").v)),
              "L105")
    /\ UNCHANGED <<args, seq>>

\* line 105: dlow = d[low]; a python number has no indexing
L105(c) ==
    /\ At(c, "sesans", "L105")
    /\ IF Val(c, "d").sh = "scalar" THEN Raise(c, "TypeError")
       ELSE Assign(c, "dlow",
                   Nd("array", "float",
                      getmask(Val(c, "d").v, Val(c, "low").v)), "L106")
    /\ UNCHANGED <<args, seq>>

L106(c) ==
    /\ At(c, "sesans", "L106")
    /\ Assign(c, "dlow2", Nd("array", "float", sesans_dlow2(Val(c, "dlow").v)),
              "L107")
    /\ UNCHANGED <<args, seq>>

\* line 107: g[low] = ... writes the object g names
L107(c) ==
    /\ At(c, "sesans", "L107")
    /\ LET dlow == Val(c, "dlow").v
           dlow2 == Val(c, "dlow2").v
           vals == [k \in DOMAIN dlow |-> sesans_formula(dlow[k], dlow2[k])]
       IN  heap' = [heap EXCEPT ![frames[c].loc.g] =
                      setmask(@, Val(c, "low").v, vals)]
    /\ frames' = [frames EXCEPT ![c].pc = "L108"]
    /\ UNCHANGED <<args, seq>>

\* line 108: return g
L108(c) ==
    /\ At(c, "sesans", "L108")
    /\ Return(c, frames[c].loc.g)
    /\ UNCHANGED <<args, seq, heap>>

NextC ==
    \E c \in Callers :
        \/ \E f \in {"form_volume", "Iq", "Iqxy", "sesans", "ER"} : Enter(c, f)
        \/ L72(c)
        \/ L77(c)
        \/ L78(c)
        \/ L85(c)
        \/ L86(c)
        \/ L87(c)
        \/ L88(c)
        \/ L92(c)
        \/ L101(c)
        \/ L102(c)
        \/ L103(c)
        \/ L104(c)
        \/ L105(c)
        \/ L106(c)
        \/ L107(c)
        \/ L108(c)
        \/ L112(c)

SpecC == InitC /\ [][NextC]_vars

(***************************************************************************)
(* The claims.                                                             *)
(***************************************************************************)
Done(f) == pc = "done" /\ fn = f
IsArray(a) == a.sh = "array"
Arr1(a) == Nd("array", "float", <<a>>)
FLe(a, b) == FLt(a, b) \/ FEq(a, b)
Between(lo, a, hi) == FLt(lo, a) /\ FLt(a, hi)

\* C1 (as claimed): Iq takes q as a number and as an array; a number gives a
\* number, an array gives an array of the same length, and neither raises.
C1_ScalarAndArrayAccepted ==
    Done("Iq") =>
        /\ ~IsFault(result)
        /\ result.sh = x.sh
        /\ Len(result.v) = Len(x.v)

\* 1.0e-4 * ((sld - solvent_sld) * form_volume(radius)) ** 2: what line 88
\* returns where the amplitude is exactly 1
UnitAmplitude ==
    LET fq == FMul(FMul(One, FSub(sld, solvent_sld)), form_volume(radius))
    IN  FMul(F(1, -4), FMul(fq, fq))

C3_RadiusZero ==
    (Done("sesans") /\ IsArray(x) /\ IsZero(radius)) =>
        /\ ~IsFault(result)
        /\ \A i \in DOMAIN x.v :
             result.v[i] = IF IsZero(x.v[i]) THEN One ELSE Zero

\* the value of sesans' regime at d = z[i] / radius
Regime(d) ==
    IF FEq(d, Zero) THEN One
    ELSE IF FGt(d, Zero) /\ FLt(d, Two) THEN sesans_formula(d, FMul(d, d))
    ELSE Zero

\* C4 (as claimed): for every array z, of whatever element type, each
\* returned element is its regime's value at d = z[i] / radius: 1 at d = 0,
\* the closed form for 0 < d < 2, and 0 otherwise.
C4_ThreeRegimes ==
    (Done("sesans") /\ IsArray(x)) =>
        /\ IsArray(result)
        /\ Len(result.v) = Len(x.v)
        /\ \A i \in DOMAIN x.v : result.v[i] = Regime(FDiv(x.v[i], radius))

\* C5: for an array q of length N, Iq returns an array of length N, and its
\* element i is what Iq returns for the one-element array [q[i]]: the other
\* elements of q have no part in it.  The same for Iqxy and (qx[i], qy[i]).
C5_Elementwise ==
    /\ (Done("Iq") /\ IsArray(x)) =>
         /\ IsArray(result)
         /\ Len(result.v) = Len(x.v)
         /\ \A i \in DOMAIN x.v :
              result.v[i] = Iq(Arr1(x.v[i]), sld, solvent_sld, radius).v[1]
    /\ (Done("Iqxy") /\ IsArray(x)) =>
         /\ IsArray(result)
         /\ Len(result.v) = Len(x.v)
         /\ \A i \in DOMAIN x.v :
              result.v[i] =
                Iqxy(Arr1(x.v[i]), Arr1(y.v[i]), sld, solvent_sld, radius).v[1]

C5_Witness ==
    /\ Done("Iq") /\ IsArray(x) /\ Len(x.v) = 2
    /\ IsZero(x.v[1]) /\ x.v[2] = F(2, -1)
    /\ radius = F(50, 0) /\ sld # solvent_sld
    /\ result.v[1] # result.v[2]

Negated(a) == [a EXCEPT !.v = [i \in DOMAIN a.v |-> FNeg(a.v[i])]]
SumSq(a, b) == FAdd(FMul(a, a), FMul(b, b))

\* C6: Iqxy(qx, qy) = Iqxy(-qx, -qy) = Iq(sqrt(qx^2 + qy^2)), and two pairs
\* with the same qx^2 + qy^2 give the same intensity.
C6_Isotropy ==
    Done("Iqxy") =>
        /\ result = Iqxy(Negated(x), Negated(y), sld, solvent_sld, radius)
        /\ result = Iq([x EXCEPT !.v = [i \in DOMAIN x.v |->
                                          sqrt(SumSq(x.v[i], y.v[i]))]],
                       sld, solvent_sld, radius)
        /\ IsArray(x) =>
             \A i \in DOMAIN x.v : \A p \in PairVals :
                 SumSq(p[1], p[2]) = SumSq(x.v[i], y.v[i]) =>
                     result.v[i] =
                       Iqxy(Arr1(p[1]), Arr1(p[2]), sld, solvent_sld, radius).v[1]

C6_Witness ==
    /\ Done("Iqxy") /\ IsArray(x) /\ Len(x.v) = 2
    /\ x.v[1] = F(12, -2) /\ y.v[1] = F(16, -2)
    /\ x.v[2] = F(2, -1) /\ y.v[2] = Zero
    /\ radius = F(50, 0) /\ sld # solvent_sld
    /\ IsFin(result.v[1]) /\ ~IsZero(result.v[1])
    /\ result.v[1] = result.v[2]

\* C7: what sesans returns is the same for every sld and solvent_sld; what
\* Iq returns is the same for every sld and solvent_sld of equal difference,
\* and differs from the intensity at zero contrast wherever it is not 0.
C7_ContrastNoninterference ==
    /\ Done("sesans") =>
         \A s \in SldVals : \A t \in SldVals :
             sesans(x, s, t, radius) = result
    /\ (Done("Iq") /\ IsArray(x)) =>
         /\ \A s \in SldVals : \A t \in SldVals :
              FSub(s, t) = FSub(sld, solvent_sld) =>
                  Iq(x, s, t, radius) = result
         /\ (\E i \in DOMAIN x.v : IsFin(result.v[i]) /\ ~IsZero(result.v[i]))
              => Iq(x, solvent_sld, solvent_sld, radius) # result

C7_Witness ==
    /\ Done("sesans") /\ IsArray(x) /\ x.dt = "float" /\ Len(x.v) = 2
    /\ x.v[1] = F(25, 0) /\ x.v[2] = Zero
    /\ radius = F(50, 0) /\ sld # solvent_sld
    /\ Between(Zero, result.v[1], One) /\ result.v[2] = One

\* Iq at q = 0.2 with the parameter table's defaults
IsDefaultCall ==
    /\ Done("Iq") /\ x = Arr1(F(2, -1))
    /\ sld = parameters[1].default
    /\ solvent_sld = parameters[2].default
    /\ radius = parameters[3].default

\* C9 (as claimed): with sld = 1, solvent_sld = 6, radius = 50, Iq at
\* q = 0.2 is about 0.726362.
C9_OracleValue ==
    IsDefaultCall => Between(F(725, -3), result.v[1], F(728, -3))

\* C9 (amended): with sld = 1, solvent_sld = 6, radius = 50, Iq at q = 0.2
\* is about 3.798e5; that divided by form_volume(50) is about 0.725362, the
\* oracle's 0.726362 less 0.001.
C9_Unnormalised ==
    IsDefaultCall =>
        /\ Between(F(379, 3), result.v[1], F(381, 3))
        /\ Between(F(724, -3),
                   FDiv(result.v[1], form_volume(radius)), F(727, -3))
        /\ Between(F(725, -3),
                   FAdd(FDiv(result.v[1], form_volume(radius)), F(1, -3)),
                   F(728, -3))

C9_Witness == IsDefaultCall /\ IsArray(result) /\ Len(result.v) = 1

\* C10 (as claimed): every number sesans passes to sqrt is positive and
\* every number it passes to log is strictly positive, so neither is called
\* outside its domain and no element returned is NaN.
C10_DomainSafe ==
    (Done("sesans") /\ IsArray(x)) =>
        /\ \A k \in DOMAIN sqrt_args : FGt(sqrt_args[k], Zero)
        /\ \A k \in DOMAIN log_args : FGt(log_args[k], Zero)
        /\ \A i \in DOMAIN result.v : ~IsNaN(result.v[i])

\* what evaluator f returns for the caller's arguments when it runs alone
Alone(f) ==
    CASE f = "form_volume" -> Nd("scalar", "float", <<form_volume(radius)>>)
      [] f = "ER" -> Nd("scalar", "float", <<ER(radius)>>)
      [] f = "Iq" -> Iq(x, sld, solvent_sld, radius)
      [] f = "Iqxy" -> Iqxy(x, y, sld, solvent_sld, radius)
      [] f = "sesans" -> sesans(x, sld, solvent_sld, radius)

Ended(c) == frames[c].pc \in {"returned", "raised"}

\* C8: under every interleaving of the callers' lines, no call writes the
\* argument arrays or the parameter table, and each call returns (or
\* raises) what the evaluator returns for those arguments when run alone:
\* so two calls with the same arguments return the same.
C8_PureReentrant ==
    /\ heap[1] = x /\ heap[2] = y
    /\ parameters = ParametersTable
    /\ \A c \in Callers :
         Ended(c) => heap[frames[c].ret] = Alone(frames[c].fn)

C8_Witness ==
    /\ IsArray(x) /\ radius = F(50, 0)
    /\ frames[1].fn = "sesans" /\ frames[1].pc = "returned"
    /\ frames[2].fn = "Iq" /\ frames[2].pc = "returned"
    /\ \E i \in DOMAIN x.v :
         Between(Zero, heap[frames[1].ret].v[i], One)
    /\ \E i \in DOMAIN x.v :
         IsFin(heap[frames[2].ret].v[i]) /\ ~IsZero(heap[frames[2].ret].v[i])
====
